---- MODULE Spec2Model ----
(***************************************************************************)
(* A model of the spell-checking engine of src/spellchecker.c.             *)
(*                                                                         *)
(* Strings are sequences of byte values (ASCII codes), so that tolower,    *)
(* isalpha and isspace are computed as the C library computes them in the  *)
(* "C" locale; the byte after the last one of a C string is NUL (0).       *)
(* Array positions are 0-based as in the source; a TLA+ sequence s holds   *)
(* the C element s[i] at s[i + 1].                                         *)
(***************************************************************************)
EXTENDS Integers, Sequences, FiniteSets, TLC

VARIABLES
    mainDictionary,   \* sc->mainDictionary : [words, capacity, size]
    userDictionary,   \* sc->userDictionary : [words, capacity, size]
    ignoredWords,     \* sc->ignoredWords   : [words, capacity, size]
    misspelled,       \* sc->misspelled     : [words, capacity, size]
    enabled,          \* sc->enabled
    userFile,         \* the user dictionary file on disk: its bytes, or NoFile
    oomLeft,          \* allocation failures the environment may still inject
    undefined,        \* a store outside an allocation has happened
    ret,              \* the last call: its name, arguments and results
    saved             \* history: the words in the user dictionary when
                      \* userFile was written

vars == <<mainDictionary, userDictionary, ignoredWords, misspelled, enabled,
          userFile, oomLeft, undefined, ret, saved>>

(***************************************************************************)
(* Sizes.  The source's values are given in the comments; the model scales *)
(* the capacities and buffers down so that growth, line splitting and      *)
(* token splitting happen on short inputs.                                 *)
(***************************************************************************)
\* INITIAL_DICT_CAPACITY (10000 in the source)
INITIAL_DICT_CAPACITY == 2
\* the user dictionary's initial capacity (1000 in the source)
INITIAL_USER_CAPACITY == 2
\* the ignore list's initial capacity (100 in the source)
INITIAL_IGNORE_CAPACITY == 1
\* INITIAL_MISSPELLED_CAPACITY (100 in the source)
INITIAL_MISSPELLED_CAPACITY == 1
\* sizeof(line) of the two loaders (256 in the source)
LINE_SIZE == 4
\* sizeof(word) of SpellChecker_Check (256 in the source)
WORD_SIZE == 3
\* the suggestion scan stops at this many candidates
SCAN_CAP == 10
\* at most this many suggestions are returned
TOP_SUGGESTIONS == 5
\* int maxDistance = 2
maxDistance == 2

\* the longest text handed to SpellChecker_Check
MaxTextLen == 3
\* the longest word handed to SpellChecker_GetSuggestions
MaxQueryLen == 3
\* a load of the main dictionary is not started when it could leave more
\* entries than this
MaxDictEntries == 4
\* the same for a load of the user dictionary
MaxUserEntries == 5
\* allocation failures per behaviour of SpecOOM
MaxHeapFailures == 1
\* the allocations of one call are numbered from 1; the one that fails is
\* chosen up to this number
MaxFailPoint == 4

\* a path that names no file, and a file with its bytes
NoFile == [exists |-> FALSE, bytes |-> <<>>]

File(bytes) == [exists |-> TRUE, bytes |-> bytes]

(***************************************************************************)
(* <ctype.h> in the "C" locale                                             *)
(***************************************************************************)
tolower(c) == IF c >= 65 /\ c <= 90 THEN c + 32 ELSE c

isalpha(c) == (c >= 65 /\ c <= 90) \/ (c >= 97 /\ c <= 122)

isspace(c) == c = 32 \/ (c >= 9 /\ c <= 13)

\* *(s + i) of a C string: NUL at and after its end
CharAt(s, i) == IF i < Len(s) THEN s[i + 1] ELSE 0

(***************************************************************************)
(* DictionaryComparator and strcasecmp_custom                              *)
(***************************************************************************)
RECURSIVE DictionaryComparatorFrom(_, _, _)
DictionaryComparatorFrom(s1, s2, i) ==
    IF CharAt(s1, i) # 0 /\ CharAt(s2, i) # 0
    THEN LET c1 == tolower(CharAt(s1, i))
             c2 == tolower(CharAt(s2, i))
         IN  IF c1 # c2 THEN c1 - c2
             ELSE DictionaryComparatorFrom(s1, s2, i + 1)
    ELSE tolower(CharAt(s1, i)) - tolower(CharAt(s2, i))

DictionaryComparator(a, b) == DictionaryComparatorFrom(a, b, 0)

RECURSIVE strcasecmp_customFrom(_, _, _)
strcasecmp_customFrom(s1, s2, i) ==
    IF CharAt(s1, i) # 0 /\ CharAt(s2, i) # 0
    THEN LET c1 == tolower(CharAt(s1, i))
             c2 == tolower(CharAt(s2, i))
         IN  IF c1 # c2 THEN c1 - c2
             ELSE strcasecmp_customFrom(s1, s2, i + 1)
    ELSE tolower(CharAt(s1, i)) - tolower(CharAt(s2, i))

strcasecmp_custom(s1, s2) == strcasecmp_customFrom(s1, s2, 0)

(***************************************************************************)
(* qsort with DictionaryComparator.  The order qsort gives to elements     *)
(* that compare equal is unspecified: Qsort is the set of all the          *)
(* arrangements of the array that are in comparator order.                 *)
(***************************************************************************)
InsertAt(s, p, w) == SubSeq(s, 1, p) \o <<w>> \o SubSeq(s, p + 1, Len(s))

SortedInsertions(s, w) ==
    { InsertAt(s, p, w) :
        p \in { q \in 0..Len(s) :
                  /\ (q = 0 \/ DictionaryComparator(s[q], w) <= 0)
                  /\ (q = Len(s) \/ DictionaryComparator(w, s[q + 1]) <= 0) } }

RECURSIVE Qsort(_)
Qsort(words) ==
    IF words = <<>> THEN { <<>> }
    ELSE UNION { SortedInsertions(s, Head(words)) : s \in Qsort(Tail(words)) }

(***************************************************************************)
(* BinarySearchDictionary                                                  *)
(***************************************************************************)
RECURSIVE BinarySearchFrom(_, _, _, _)
BinarySearchFrom(words, word, left, right) ==
    IF left <= right
    THEN LET mid == left + (right - left) \div 2
             cmp == strcasecmp_custom(words[mid + 1], word)
         IN  IF cmp = 0 THEN TRUE
             ELSE IF cmp < 0 THEN BinarySearchFrom(words, word, mid + 1, right)
             ELSE BinarySearchFrom(words, word, left, mid - 1)
    ELSE FALSE

BinarySearchDictionary(dict, word) ==
    BinarySearchFrom(dict.words, word, 0, Len(dict.words) - 1)

(***************************************************************************)
(* A growable array.  words holds the count entries in use (count is       *)
(* Len(words)), capacity is the recorded capacity and size the number of   *)
(* slots of the allocation that words points to.                           *)
(*                                                                         *)
(* The allocations a call makes are numbered from 1 in the order it makes  *)
(* them; n is the number made so far and failAt the number of the one that *)
(* returns NULL (0: none does).                                            *)
(***************************************************************************)
NewArray(cap) == [words |-> <<>>, capacity |-> cap, size |-> cap]

\* The append the loaders, AddToUserDictionary and AddToIgnoreList share:
\* double the capacity and realloc when full, malloc the copy, store it,
\* count++.  status: "stored", "failed" (an allocation returned NULL and the
\* caller returns) or "undefined" (the store is outside the allocation).
StoreWord(d, word, n, failAt) ==
    LET count == Len(d.words)
        grow  == count >= d.capacity
        d1    == IF grow THEN [d EXCEPT !.capacity = 2 * d.capacity] ELSE d
        n1    == IF grow THEN n + 1 ELSE n
    IN  IF grow /\ n1 = failAt
        THEN [dict |-> d1, status |-> "failed", n |-> n1]
        ELSE LET d2 == IF grow THEN [d1 EXCEPT !.size = d1.capacity] ELSE d1
                 n2 == n1 + 1
             IN  IF count >= d2.size
                 THEN [dict |-> d2, status |-> "undefined", n |-> n2]
                 ELSE IF n2 = failAt
                 THEN [dict |-> d2, status |-> "failed", n |-> n2]
                 ELSE [dict |-> [d2 EXCEPT !.words = Append(@, word)],
                       status |-> "stored", n |-> n2]

(***************************************************************************)
(* Reading a dictionary file                                               *)
(***************************************************************************)
\* fgets(line, sizeof(line), file) at offset from: how many bytes it reads,
\* at most LINE_SIZE - 1 and none after a newline
RECURSIVE FgetsLen(_, _, _)
FgetsLen(bytes, from, k) ==
    IF k >= LINE_SIZE - 1 \/ from + k >= Len(bytes) THEN k
    ELSE IF bytes[from + k + 1] = 10 THEN k + 1
    ELSE FgetsLen(bytes, from, k + 1)

\* the lines the successive fgets calls return, until end of file
RECURSIVE ReadLines(_, _)
ReadLines(bytes, from) ==
    IF from >= Len(bytes) THEN <<>>
    ELSE LET k == FgetsLen(bytes, from, 0)
         IN  <<SubSeq(bytes, from + 1, from + k)>> \o ReadLines(bytes, from + k)

\* while (len > 0 && isspace(line[len - 1])) line[--len] = '\0';
RECURSIVE TrimRight(_)
TrimRight(line) ==
    IF Len(line) > 0 /\ isspace(line[Len(line)])
    THEN TrimRight(SubSeq(line, 1, Len(line) - 1))
    ELSE line

\* The read loop of SpellChecker_LoadDictionary (comments = TRUE: lines that
\* start with '#' are skipped) and of SpellChecker_LoadUserDictionary
\* (comments = FALSE).  status "eof": the loop ended and the sort follows.
RECURSIVE LoadLines(_, _, _, _, _, _)
LoadLines(d, lines, i, n, failAt, comments) ==
    IF i > Len(lines) THEN [dict |-> d, status |-> "eof", n |-> n]
    ELSE LET line == TrimRight(lines[i])
         IN  IF Len(line) = 0 \/ (comments /\ line[1] = 35)
             THEN LoadLines(d, lines, i + 1, n, failAt, comments)
             ELSE LET r == StoreWord(d, line, n, failAt)
                  IN  IF r.status = "stored"
                      THEN LoadLines(r.dict, lines, i + 1, r.n, failAt, comments)
                      ELSE r

\* The arrays a load can leave: after the loop has ended the array is sorted,
\* after a return from inside the loop it is as the loop left it.
AfterLoad(r) ==
    IF r.status = "eof"
    THEN { [r.dict EXCEPT !.words = s] : s \in Qsort(r.dict.words) }
    ELSE { r.dict }

\* the bug of writing the entries without the newline after each
RECURSIVE FileOf_WithoutNewlines(_)
FileOf_WithoutNewlines(words) ==
    IF words = <<>> THEN <<>>
    ELSE Head(words) \o FileOf_WithoutNewlines(Tail(words))

\* fprintf(file, "%s\n", words[i]) for each entry
RECURSIVE FileOf(_)
FileOf(words) ==
    IF words = <<>> THEN <<>>
    ELSE Head(words) \o <<10>> \o FileOf(Tail(words))

(***************************************************************************)
(* SpellChecker_IsWordCorrect                                              *)
(***************************************************************************)
\* the bug of leaving the ignore list out of the correctness policy
IsWordCorrect_WithoutIgnoreList(ignored, main, user, word) ==
    IF Len(word) = 0 THEN TRUE
    ELSE IF BinarySearchDictionary(main, word) THEN TRUE
    ELSE IF BinarySearchDictionary(user, word) THEN TRUE
    ELSE FALSE

SpellChecker_IsWordCorrect(ignored, main, user, word) ==
    IF Len(word) = 0 THEN TRUE
    ELSE IF BinarySearchDictionary(ignored, word) THEN TRUE
    ELSE IF BinarySearchDictionary(main, word) THEN TRUE
    ELSE IF BinarySearchDictionary(user, word) THEN TRUE
    ELSE FALSE

(***************************************************************************)
(* SpellChecker_Check                                                      *)
(***************************************************************************)
\* while (*ptr && !isalpha(*ptr)) { ptr++; pos++; }
RECURSIVE SkipNonAlpha(_, _)
SkipNonAlpha(text, pos) ==
    IF CharAt(text, pos) # 0 /\ ~isalpha(CharAt(text, pos))
    THEN SkipNonAlpha(text, pos + 1)
    ELSE pos

\* while (*ptr && isalpha(*ptr) && wordLen < sizeof(word) - 1) { ... }
RECURSIVE ExtractWord(_, _, _)
ExtractWord(text, pos, wordLen) ==
    IF CharAt(text, pos) # 0 /\ isalpha(CharAt(text, pos)) /\ wordLen < WORD_SIZE - 1
    THEN ExtractWord(text, pos + 1, wordLen + 1)
    ELSE pos

\* the append to the misspelled list: lines 311-322
StoreMisspelled(m, entry, n, failAt) ==
    LET count == Len(m.words)
        grow  == count >= m.capacity
        m1    == IF grow THEN [m EXCEPT !.capacity = 2 * m.capacity] ELSE m
        n1    == IF grow THEN n + 1 ELSE n
    IN  IF grow /\ n1 = failAt
        THEN [list |-> m1, status |-> "failed", n |-> n1]
        ELSE LET m2 == IF grow THEN [m1 EXCEPT !.size = m1.capacity] ELSE m1
             IN  IF count >= m2.size
                 THEN [list |-> m2, status |-> "undefined", n |-> n1]
                 ELSE [list |-> [m2 EXCEPT !.words = Append(@, entry)],
                       status |-> "stored", n |-> n1]

\* the scan loop: lines 287-324
RECURSIVE ScanText(_, _, _, _, _, _, _, _)
ScanText(ignored, main, user, text, pos, m, n, failAt) ==
    LET wordStart == SkipNonAlpha(text, pos)
    IN  IF CharAt(text, wordStart) = 0
        THEN [list |-> m, status |-> "done", n |-> n]
        ELSE LET end  == ExtractWord(text, wordStart, 0)
                 word == SubSeq(text, wordStart + 1, end)
             IN  IF SpellChecker_IsWordCorrect(ignored, main, user, word)
                 THEN ScanText(ignored, main, user, text, end, m, n, failAt)
                 ELSE LET r == StoreMisspelled(
                                 m, [word |-> word, startPos |-> wordStart,
                                     endPos |-> end], n, failAt)
                      IN  IF r.status = "stored"
                          THEN ScanText(ignored, main, user, text, end,
                                        r.list, r.n, failAt)
                          ELSE r

\* text[0] == '\0', or every character of text is white space
RECURSIVE OnlyWhitespace(_, _)
OnlyWhitespace(text, i) ==
    IF CharAt(text, i) = 0 THEN TRUE
    ELSE IF ~isspace(CharAt(text, i)) THEN FALSE
    ELSE OnlyWhitespace(text, i + 1)

\* the bug of not resetting the list at the start of a pass
ResetMisspelled_Keep(m) == m

\* sc->misspelled.count = 0
ResetMisspelled(m) == [m EXCEPT !.words = <<>>]

SpellChecker_Check(ignored, main, user, m, isEnabled, text, failAt) ==
    IF ~isEnabled THEN [list |-> ResetMisspelled(m), status |-> "done", n |-> 0]
    ELSE IF OnlyWhitespace(text, 0)
    THEN [list |-> ResetMisspelled(m), status |-> "done", n |-> 0]
    ELSE ScanText(ignored, main, user, text, 0, ResetMisspelled(m), 0, failAt)

(***************************************************************************)
(* LevenshteinDistance, with its one rolling row d[0..len2]                *)
(***************************************************************************)
Min(a, b) == IF a < b THEN a ELSE b

\* the inner loop, from column j on: the row and prev_diag as it leaves them
RECURSIVE LevenshteinRow(_, _, _, _, _, _)
LevenshteinRow(s1, s2, i, j, d, prev_diag) ==
    IF j > Len(s2) THEN d
    ELSE LET cost == IF s1[i] = s2[j] THEN 0 ELSE 1
             temp == d[j]
             dj   == Min(Min(d[j] + 1, d[j - 1] + 1), prev_diag + cost)
         IN  LevenshteinRow(s1, s2, i, j + 1, [d EXCEPT ![j] = dj], temp)

\* the outer loop, from row i on
RECURSIVE LevenshteinRows(_, _, _, _)
LevenshteinRows(s1, s2, i, d) ==
    IF i > Len(s1) THEN d
    ELSE LevenshteinRows(s1, s2, i + 1,
                         LevenshteinRow(s1, s2, i, 1, [d EXCEPT ![0] = i], i - 1))

\* mallocOk: whether the malloc of the row succeeds
LevenshteinDistance(s1, s2, mallocOk) ==
    IF Len(s1) = 0 THEN Len(s2)
    ELSE IF Len(s2) = 0 THEN Len(s1)
    ELSE IF ~mallocOk THEN -1
    ELSE LevenshteinRows(s1, s2, 1, [j \in 0..Len(s2) |-> j])[Len(s2)]

(***************************************************************************)
(* SpellChecker_GetSuggestions                                             *)
(***************************************************************************)
\* the scan of the main dictionary: lines 345-352
RECURSIVE ScanDictionary(_, _, _, _, _, _)
ScanDictionary(words, word, i, suggestions, n, failAt) ==
    IF i < Len(words) /\ Len(suggestions) < SCAN_CAP
    THEN LET allocates == Len(word) # 0 /\ Len(words[i + 1]) # 0
             n1   == IF allocates THEN n + 1 ELSE n
             dist == LevenshteinDistance(word, words[i + 1], n1 # failAt)
         IN  IF dist > 0 /\ dist <= maxDistance
             THEN ScanDictionary(words, word, i + 1,
                      Append(suggestions, [word |-> words[i + 1], distance |-> dist]),
                      n1, failAt)
             ELSE ScanDictionary(words, word, i + 1, suggestions, n1, failAt)
    ELSE [suggestions |-> suggestions, n |-> n]

Swap(s, i, j) == [s EXCEPT ![i + 1] = s[j + 1], ![j + 1] = s[i + 1]]

\* the bug of returning the candidates unsorted
SortByDistance_Skipped(s, i, j) == s

\* the two loops of "Sort by distance": lines 355-363
RECURSIVE SortByDistance(_, _, _)
SortByDistance(s, i, j) ==
    IF i >= Len(s) - 1 THEN s
    ELSE IF j >= Len(s) THEN SortByDistance(s, i + 1, i + 2)
    ELSE IF s[j + 1].distance < s[i + 1].distance
    THEN SortByDistance(Swap(s, i, j), i, j + 1)
    ELSE SortByDistance(s, i, j + 1)

\* the bug of returning every candidate of the scan
LimitSuggestions_Unlimited(s) == s

\* if (suggestCount > 5) suggestCount = 5;
LimitSuggestions(s) ==
    IF Len(s) > TOP_SUGGESTIONS THEN SubSeq(s, 1, TOP_SUGGESTIONS) ELSE s

\* null: the call returns NULL (an allocation other than a distance row
\* failed); result: the returned array; count: *count
SpellChecker_GetSuggestions(main, word, failAt) ==
    IF failAt = 1 THEN [null |-> TRUE, result |-> <<>>, count |-> 0, n |-> 1]
    ELSE LET scan   == ScanDictionary(main.words, word, 0, <<>>, 1, failAt)
             sorted == SortByDistance(scan.suggestions, 0, 1)
             top    == LimitSuggestions(sorted)
             n      == scan.n + 1 + Len(top)
         IN  IF failAt > scan.n /\ failAt <= n
             THEN [null |-> TRUE, result |-> <<>>, count |-> 0, n |-> failAt]
             ELSE [null |-> FALSE, result |-> [k \in 1..Len(top) |-> top[k].word],
                   count |-> Len(top), n |-> n]

(***************************************************************************)
(* SpellChecker_IsMisspelledAtPosition                                     *)
(***************************************************************************)
\* strncpy(outWord, word, outWordLen - 1); outWord[outWordLen - 1] = '\0';
Strncpy(word, outWordLen) ==
    IF Len(word) > outWordLen - 1 THEN SubSeq(word, 1, outWordLen - 1) ELSE word

\* written: the caller's buffer was written (a match and outWordLen > 0);
\* outWord: the string then in it
RECURSIVE IsMisspelledFrom(_, _, _, _)
IsMisspelledFrom(m, i, pos, outWordLen) ==
    IF i >= Len(m.words) THEN [found |-> FALSE, written |-> FALSE, outWord |-> <<>>]
    ELSE IF pos >= m.words[i + 1].startPos /\ pos < m.words[i + 1].endPos
    THEN [found |-> TRUE, written |-> outWordLen > 0,
          outWord |-> IF outWordLen > 0
                      THEN Strncpy(m.words[i + 1].word, outWordLen) ELSE <<>>]
    ELSE IsMisspelledFrom(m, i + 1, pos, outWordLen)

\* the bug of taking the end offset as inside the entry
RECURSIVE IsMisspelledFrom_InclusiveEnd(_, _, _, _)
IsMisspelledFrom_InclusiveEnd(m, i, pos, outWordLen) ==
    IF i >= Len(m.words) THEN [found |-> FALSE, written |-> FALSE, outWord |-> <<>>]
    ELSE IF pos >= m.words[i + 1].startPos /\ pos <= m.words[i + 1].endPos
    THEN [found |-> TRUE, written |-> outWordLen > 0,
          outWord |-> IF outWordLen > 0
                      THEN Strncpy(m.words[i + 1].word, outWordLen) ELSE <<>>]
    ELSE IsMisspelledFrom_InclusiveEnd(m, i + 1, pos, outWordLen)

IsMisspelledAtPosition_InclusiveEnd(m, pos, outWordLen) ==
    IsMisspelledFrom_InclusiveEnd(m, 0, pos, outWordLen)

SpellChecker_IsMisspelledAtPosition(m, pos, outWordLen) ==
    IsMisspelledFrom(m, 0, pos, outWordLen)

(***************************************************************************)
(* The inputs of the calls                                                 *)
(***************************************************************************)
\* 'a', 'B' and ' '
TextChars == {97, 66, 32}

Texts == UNION { [1..n -> TextChars] : n \in 0..MaxTextLen }

\* "ab", "aBa", "b " and ""
LearnWords == { <<97, 98>>, <<97, 66, 97>>, <<98, 32>>, <<>> }

\* "A" and "BB"
IgnoreWords == { <<65>>, <<66, 66>> }

\* the main dictionary file "b \n#B\naBab\n": a word with trailing white
\* space, a comment, and a line longer than the line buffer
DictFile == File(<<98, 32, 10, 35, 66, 10, 97, 66, 97, 98, 10>>)

\* what a path handed to SpellChecker_LoadDictionary names
MainPaths == {NoFile, DictFile}

\* 'a', 'b' and 'B'
QueryChars == {97, 98, 66}

\* the words handed to SpellChecker_GetSuggestions
QueryWords == UNION { [1..n -> QueryChars] : n \in 0..MaxQueryLen }

\* positions asked of SpellChecker_IsMisspelledAtPosition
Positions == 0..MaxTextLen

\* the caller's buffer sizes: none, one shorter than the stored word's
\* buffer, and one as large
OutWordLens == {0, 2, WORD_SIZE}

\* which allocation a call may see fail
FailPoints == IF oomLeft > 0 THEN 0..MaxFailPoint ELSE {0}

\* whether allocation failAt was among the n the call made
Failed(failAt, n) == failAt # 0 /\ failAt <= n

(***************************************************************************)
(* The state after SpellChecker_Create                                     *)
(***************************************************************************)
Created ==
    /\ mainDictionary = NewArray(INITIAL_DICT_CAPACITY)
    /\ userDictionary = NewArray(INITIAL_USER_CAPACITY)
    /\ ignoredWords = NewArray(INITIAL_IGNORE_CAPACITY)
    /\ misspelled = NewArray(INITIAL_MISSPELLED_CAPACITY)
    /\ enabled = TRUE
    /\ undefined = FALSE
    /\ ret = [op |-> "Create"]

Init ==
    /\ Created
    /\ userFile = NoFile
    /\ saved = {}
    /\ oomLeft = 0

InitOOM ==
    /\ Created
    /\ userFile = NoFile
    /\ saved = {}
    /\ oomLeft = MaxHeapFailures

(***************************************************************************)
(* The calls                                                               *)
(***************************************************************************)
\* SpellChecker_Destroy of the engine and SpellChecker_Create of a fresh
\* one; the files stay
Create ==
    /\ ~undefined
    /\ mainDictionary' = NewArray(INITIAL_DICT_CAPACITY)
    /\ userDictionary' = NewArray(INITIAL_USER_CAPACITY)
    /\ ignoredWords' = NewArray(INITIAL_IGNORE_CAPACITY)
    /\ misspelled' = NewArray(INITIAL_MISSPELLED_CAPACITY)
    /\ enabled' = TRUE
    /\ ret' = [op |-> "Create"]
    /\ UNCHANGED <<userFile, oomLeft, undefined, saved>>

LoadDictionary(file, failAt) ==
    /\ ~undefined
    /\ IF ~file.exists
       THEN /\ ret' = [op |-> "LoadDictionary", result |-> FALSE]
            /\ UNCHANGED <<mainDictionary, oomLeft, undefined>>
       ELSE LET lines == ReadLines(file.bytes, 0)
                r     == LoadLines(mainDictionary, lines, 1, 0, failAt, TRUE)
            IN  /\ Len(mainDictionary.words) + Len(lines) <= MaxDictEntries
                /\ mainDictionary' \in AfterLoad(r)
                /\ undefined' = (r.status = "undefined")
                /\ oomLeft' = IF r.status = "failed" THEN oomLeft - 1 ELSE oomLeft
                /\ ret' = [op |-> "LoadDictionary",
                           result |-> r.status = "eof" /\ Len(r.dict.words) > 0]
    /\ UNCHANGED <<userDictionary, ignoredWords, misspelled, enabled, userFile,
                   saved>>

\* fresh: the call is the first one on a newly created engine
LoadUserDictionary(failAt) ==
    /\ ~undefined
    /\ IF ~userFile.exists
       THEN /\ ret' = [op |-> "LoadUserDictionary", result |-> TRUE,
                       fresh |-> ret.op = "Create"]
            /\ UNCHANGED <<userDictionary, oomLeft, undefined>>
       ELSE LET lines == ReadLines(userFile.bytes, 0)
                r     == LoadLines(userDictionary, lines, 1, 0, failAt, FALSE)
            IN  /\ Len(userDictionary.words) + Len(lines) <= MaxUserEntries
                /\ userDictionary' \in AfterLoad(r)
                /\ undefined' = (r.status = "undefined")
                /\ oomLeft' = IF r.status = "failed" THEN oomLeft - 1 ELSE oomLeft
                /\ ret' = [op |-> "LoadUserDictionary", result |-> r.status = "eof",
                           fresh |-> ret.op = "Create"]
    /\ UNCHANGED <<mainDictionary, ignoredWords, misspelled, enabled, userFile,
                   saved>>

\* repeat: the call before was a check of the same text
Check(text, failAt) ==
    /\ ~undefined
    /\ LET r == SpellChecker_Check(ignoredWords, mainDictionary, userDictionary,
                                   misspelled, enabled, text, failAt)
       IN  /\ misspelled' = r.list
           /\ undefined' = (r.status = "undefined")
           /\ oomLeft' = IF r.status = "failed" THEN oomLeft - 1 ELSE oomLeft
    /\ ret' = [op |-> "Check", text |-> text,
               repeat |-> IF ret.op = "Check" THEN ret.text = text ELSE FALSE]
    /\ UNCHANGED <<mainDictionary, userDictionary, ignoredWords, enabled, userFile,
                   saved>>

GetSuggestions(word, failAt) ==
    /\ ~undefined
    /\ LET r == SpellChecker_GetSuggestions(mainDictionary, word, failAt)
       IN  /\ ret' = [op |-> "GetSuggestions", word |-> word, null |-> r.null,
                      result |-> r.result, count |-> r.count]
           /\ oomLeft' = IF Failed(failAt, r.n) THEN oomLeft - 1 ELSE oomLeft
    /\ UNCHANGED <<mainDictionary, userDictionary, ignoredWords, misspelled,
                   enabled, userFile, undefined, saved>>

IsMisspelledAtPosition(pos, outWordLen) ==
    /\ ~undefined
    /\ LET r == SpellChecker_IsMisspelledAtPosition(misspelled, pos, outWordLen)
       IN  ret' = [op |-> "IsMisspelledAtPosition", pos |-> pos,
                   outWordLen |-> outWordLen, found |-> r.found,
                   written |-> r.written, outWord |-> r.outWord]
    /\ UNCHANGED <<mainDictionary, userDictionary, ignoredWords, misspelled,
                   enabled, userFile, oomLeft, undefined, saved>>

\* the bug of not sorting after an insert
AfterInsert_Unsorted(r) == { r.dict }

\* The arrays an insert can leave: sorted after the store, as they were
\* left after a return before it.
AfterInsert(r) ==
    IF r.status = "stored"
    THEN { [r.dict EXCEPT !.words = s] : s \in Qsort(r.dict.words) }
    ELSE { r.dict }

SpellChecker_AddToUserDictionary(user, word, failAt) ==
    IF BinarySearchDictionary(user, word)
    THEN [dict |-> user, status |-> "present", n |-> 0]
    ELSE StoreWord(user, word, 0, failAt)

AddToUserDictionary(word, failAt) ==
    /\ ~undefined
    /\ LET r == SpellChecker_AddToUserDictionary(userDictionary, word, failAt)
       IN  /\ userDictionary' \in AfterInsert(r)
           /\ undefined' = (r.status = "undefined")
           /\ oomLeft' = IF r.status = "failed" THEN oomLeft - 1 ELSE oomLeft
    /\ ret' = [op |-> "AddToUserDictionary", word |-> word]
    /\ UNCHANGED <<mainDictionary, ignoredWords, misspelled, enabled, userFile,
                   saved>>

\* canOpen: whether fopen(filePath, "w") succeeds
SaveUserDictionary(canOpen) ==
    /\ ~undefined
    /\ IF canOpen
       THEN \E s \in Qsort(userDictionary.words) :
               /\ userDictionary' = [userDictionary EXCEPT !.words = s]
               /\ userFile' = File(FileOf(s))
               /\ saved' = { s[k] : k \in 1..Len(s) }
       ELSE UNCHANGED <<userDictionary, userFile, saved>>
    /\ ret' = [op |-> "SaveUserDictionary", opened |-> canOpen]
    /\ UNCHANGED <<mainDictionary, ignoredWords, misspelled, enabled, oomLeft,
                   undefined>>

SpellChecker_AddToIgnoreList(ignored, word, failAt) ==
    IF BinarySearchDictionary(ignored, word)
    THEN [dict |-> ignored, status |-> "present", n |-> 0]
    ELSE StoreWord(ignored, word, 0, failAt)

AddToIgnoreList(word, failAt) ==
    /\ ~undefined
    /\ LET r == SpellChecker_AddToIgnoreList(ignoredWords, word, failAt)
       IN  /\ ignoredWords' \in AfterInsert(r)
           /\ undefined' = (r.status = "undefined")
           /\ oomLeft' = IF r.status = "failed" THEN oomLeft - 1 ELSE oomLeft
    /\ ret' = [op |-> "AddToIgnoreList"]
    /\ UNCHANGED <<mainDictionary, userDictionary, misspelled, enabled, userFile,
                   saved>>

\* sc->ignoredWords.count = 0; the capacity and the allocation stay
SpellChecker_ClearIgnoreList(ignored) == [ignored EXCEPT !.words = <<>>]

ClearIgnoreList ==
    /\ ~undefined
    /\ ignoredWords' = SpellChecker_ClearIgnoreList(ignoredWords)
    /\ ret' = [op |-> "ClearIgnoreList"]
    /\ UNCHANGED <<mainDictionary, userDictionary, misspelled, enabled, userFile,
                   oomLeft, undefined, saved>>

\* the caller's write of sc->enabled
SetEnabled(b) ==
    /\ ~undefined
    /\ enabled' = b
    /\ ret' = [op |-> "SetEnabled"]
    /\ UNCHANGED <<mainDictionary, userDictionary, ignoredWords, misspelled,
                   userFile, oomLeft, undefined, saved>>

Next ==
    \/ Create
    \/ \E file \in MainPaths, failAt \in FailPoints : LoadDictionary(file, failAt)
    \/ \E failAt \in FailPoints : LoadUserDictionary(failAt)
    \/ \E text \in Texts, failAt \in FailPoints : Check(text, failAt)
    \/ \E word \in QueryWords, failAt \in FailPoints : GetSuggestions(word, failAt)
    \/ \E pos \in Positions, len \in OutWordLens : IsMisspelledAtPosition(pos, len)
    \/ \E word \in LearnWords, failAt \in FailPoints : AddToUserDictionary(word, failAt)
    \/ \E canOpen \in BOOLEAN : SaveUserDictionary(canOpen)
    \/ \E word \in IgnoreWords, failAt \in FailPoints : AddToIgnoreList(word, failAt)
    \/ ClearIgnoreList
    \/ \E b \in BOOLEAN : SetEnabled(b)

\* the engine with every allocation succeeding
Spec == Init /\ [][Next]_vars

(***************************************************************************)
(* The calls of Next grouped by the part of the engine they exercise, each *)
(* group with inputs chosen for that part.  Every group is made of        *)
(* actions of Next: a call outside a group leaves the variables the        *)
(* group's properties read unchanged.                                      *)
(***************************************************************************)
\* "Ba"
CheckLearnWords == { <<66, 97>> }

\* "A"
CheckIgnoreWords == { <<65>> }

\* checking a text over the three word sets
NextCheck ==
    \/ \E file \in MainPaths, failAt \in FailPoints : LoadDictionary(file, failAt)
    \/ \E word \in CheckLearnWords, failAt \in FailPoints :
          AddToUserDictionary(word, failAt)
    \/ \E word \in CheckIgnoreWords, failAt \in FailPoints :
          AddToIgnoreList(word, failAt)
    \/ ClearIgnoreList
    \/ \E b \in BOOLEAN : SetEnabled(b)
    \/ \E text \in Texts, failAt \in FailPoints : Check(text, failAt)

SpecCheck == Init /\ [][NextCheck]_vars

\* checking a text and asking for the word at a position
NextLookup ==
    \/ \E file \in MainPaths, failAt \in FailPoints : LoadDictionary(file, failAt)
    \/ \E text \in Texts, failAt \in FailPoints : Check(text, failAt)
    \/ \E pos \in Positions, len \in OutWordLens : IsMisspelledAtPosition(pos, len)

SpecLookup == Init /\ [][NextLookup]_vars

\* the user dictionary and its file
NextUser ==
    \/ Create
    \/ \E word \in LearnWords, failAt \in FailPoints : AddToUserDictionary(word, failAt)
    \/ \E canOpen \in BOOLEAN : SaveUserDictionary(canOpen)
    \/ \E failAt \in FailPoints : LoadUserDictionary(failAt)

SpecUser == Init /\ [][NextUser]_vars

\* The main dictionary files of the suggestion checks, one word per line:
\* twelve one-letter words "b" .. "m"; "abb", "bab", "ab", "ba", "a", "B";
\* "aab", "abb", "b"; and "A", "a", "ab", where "A" and "a" compare equal.
SuggestFiles ==
    { File(FileOf([k \in 1..12 |-> <<97 + k>>])),
      File(FileOf(<< <<97, 98, 98>>, <<98, 97, 98>>, <<97, 98>>, <<98, 97>>,
                     <<97>>, <<66>> >>)),
      File(FileOf(<< <<97, 97, 98>>, <<97, 98, 98>>, <<98>> >>)),
      File(FileOf(<< <<65>>, <<97>>, <<97, 98>> >>)) }

\* a newly created engine after SpellChecker_LoadDictionary of one of the
\* files
InitSuggest ==
    /\ \E file \in SuggestFiles :
          mainDictionary \in AfterLoad(
              LoadLines(NewArray(INITIAL_DICT_CAPACITY),
                        ReadLines(file.bytes, 0), 1, 0, 0, TRUE))
    /\ userDictionary = NewArray(INITIAL_USER_CAPACITY)
    /\ ignoredWords = NewArray(INITIAL_IGNORE_CAPACITY)
    /\ misspelled = NewArray(INITIAL_MISSPELLED_CAPACITY)
    /\ enabled = TRUE
    /\ undefined = FALSE
    /\ ret = [op |-> "LoadDictionary", result |-> TRUE]
    /\ userFile = NoFile
    /\ saved = {}
    /\ oomLeft = 0

\* "bb" is learnt: a word near the queries that is in no main dictionary file
NextSuggest ==
    \/ \E word \in QueryWords, failAt \in FailPoints : GetSuggestions(word, failAt)
    \/ \E failAt \in FailPoints : AddToUserDictionary(<<98, 98>>, failAt)

SpecSuggest == InitSuggest /\ [][NextSuggest]_vars

\* "a a" and "B"
OOMTexts == { <<97, 32, 97>>, <<66>> }

\* "Ba", "ab" and "b "
OOMLearnWords == { <<66, 97>>, <<97, 98>>, <<98, 32>> }

\* the calls that grow an array, with allocations that may fail
NextOOM ==
    \/ \E file \in MainPaths, failAt \in FailPoints : LoadDictionary(file, failAt)
    \/ \E word \in OOMLearnWords, failAt \in FailPoints :
          AddToUserDictionary(word, failAt)
    \/ \E word \in IgnoreWords, failAt \in FailPoints : AddToIgnoreList(word, failAt)
    \/ ClearIgnoreList
    \/ \E text \in OOMTexts, failAt \in FailPoints : Check(text, failAt)

SpecOOM == InitOOM /\ [][NextOOM]_vars

(***************************************************************************)
(* Definitions the properties are stated with.  They are written from what *)
(* the properties say, not from the code: membership is a linear search    *)
(* for a word equal after case folding, the edit distance is the textbook  *)
(* recursion.                                                              *)
(***************************************************************************)
Lower(w) == [k \in 1..Len(w) |-> tolower(w[k])]

Upper(w) == [k \in 1..Len(w) |-> IF w[k] >= 97 /\ w[k] <= 122 THEN w[k] - 32 ELSE w[k]]

\* w is in the word set, compared case-insensitively
Member(set, w) == \E k \in 1..Len(set.words) : Lower(set.words[k]) = Lower(w)

InNoSet(w) ==
    ~Member(ignoredWords, w) /\ ~Member(mainDictionary, w) /\ ~Member(userDictionary, w)

IsSorted(set) ==
    \A k \in 1..(Len(set.words) - 1) :
        DictionaryComparator(set.words[k], set.words[k + 1]) <= 0

\* the maximal run of alphabetic characters around position p of text
RunStart(text, p) ==
    CHOOSE q \in 0..p :
        /\ \A k \in q..p : isalpha(CharAt(text, k))
        /\ q = 0 \/ ~isalpha(CharAt(text, q - 1))

RunEnd(text, p) ==
    CHOOSE e \in (p + 1)..Len(text) :
        /\ \A k \in p..(e - 1) : isalpha(CharAt(text, k))
        /\ ~isalpha(CharAt(text, e))

\* The tokens of the scan: every maximal run, cut into pieces of
\* WORD_SIZE - 1 characters from its start.
TokenStarts(text) ==
    { p \in 0..(Len(text) - 1) :
        /\ isalpha(CharAt(text, p))
        /\ (p - RunStart(text, p)) % (WORD_SIZE - 1) = 0 }

Token(text, p) ==
    LET end == Min(p + WORD_SIZE - 1, RunEnd(text, p))
    IN  [word |-> SubSeq(text, p + 1, end), startPos |-> p, endPos |-> end]

Entries(list) == { list.words[k] : k \in 1..Len(list.words) }

Ascending(list) ==
    \A k, l \in 1..Len(list.words) :
        k < l => list.words[k].startPos < list.words[l].startPos

RECURSIVE EditDistance(_, _)
EditDistance(a, b) ==
    IF a = <<>> THEN Len(b)
    ELSE IF b = <<>> THEN Len(a)
    ELSE Min(Min(EditDistance(Tail(a), b) + 1, EditDistance(a, Tail(b)) + 1),
             EditDistance(Tail(a), Tail(b)) + (IF Head(a) = Head(b) THEN 0 ELSE 1))

\* C1: after a check of a text with checking enabled, the misspelled list
\* holds exactly the tokens of the text that are, compared
\* case-insensitively, in none of the ignore list, the main dictionary and
\* the user dictionary, in scan order, each with its offsets in the text.
\* The tokens are those the scan yields; where a run longer than the
\* capture buffer ends is the subject of C5.
C1_MisspelledIffInNoSet ==
    (ret.op = "Check" /\ enabled /\ ~undefined) =>
        /\ Entries(misspelled) =
             { Token(ret.text, p) :
                 p \in { q \in TokenStarts(ret.text) : InNoSet(Token(ret.text, q).word) } }
        /\ Ascending(misspelled)

\* "B a" checked with "A" ignored and no main dictionary: only "B" at
\* [0, 1) is recorded
C1_Witness ==
    /\ ret.op = "Check"
    /\ enabled
    /\ ret.text = <<66, 32, 97>>
    /\ ignoredWords.words = << <<65>> >>
    /\ userDictionary.words # <<>>
    /\ misspelled.words = << [word |-> <<66>>, startPos |-> 0, endPos |-> 1] >>

\* C4: a check of the text the call before has checked leaves the same
\* misspelled list: same words, same offsets, same order.
C4_CheckIdempotent ==
    [][ (ret.op = "Check" /\ ret'.op = "Check" /\ ret'.text = ret.text)
          => misspelled'.words = misspelled.words ]_vars

\* two entries recorded by the second of two checks of one text
C4_Witness ==
    /\ ret.op = "Check"
    /\ ret.repeat
    /\ Len(misspelled.words) = 2

\* C5: every recorded token is a maximal run of alphabetic characters: no
\* letter before its start offset and none at its end offset, also for a
\* run longer than the capture buffer.
C5_TokensAreMaximalRuns ==
    (ret.op = "Check" /\ ~undefined) =>
        \A e \in Entries(misspelled) :
            /\ e.startPos = 0 \/ ~isalpha(CharAt(ret.text, e.startPos - 1))
            /\ ~isalpha(CharAt(ret.text, e.endPos))

Covering(pos) ==
    { k \in 1..Len(misspelled.words) :
        misspelled.words[k].startPos <= pos /\ pos < misspelled.words[k].endPos }

\* C8: the misspelled entries have start < end, ascend and do not overlap,
\* so at most one contains a position; SpellChecker_IsMisspelledAtPosition
\* reports a match exactly when one does, and gives its word to a caller
\* whose buffer holds WORD_SIZE bytes.
C8_WordAtOffset ==
    /\ \A k \in 1..Len(misspelled.words) :
          misspelled.words[k].startPos < misspelled.words[k].endPos
    /\ \A k, l \in 1..Len(misspelled.words) :
          k < l => misspelled.words[k].endPos <= misspelled.words[l].startPos
    /\ ret.op = "IsMisspelledAtPosition" =>
          /\ Cardinality(Covering(ret.pos)) <= 1
          /\ ret.found <=> Covering(ret.pos) # {}
          /\ (ret.found /\ ret.outWordLen >= WORD_SIZE) =>
                /\ ret.written
                /\ \A k \in Covering(ret.pos) : ret.outWord = misspelled.words[k].word

\* a position inside the second of two entries is asked for
C8_Witness ==
    /\ ret.op = "IsMisspelledAtPosition"
    /\ ret.found
    /\ ret.outWordLen = WORD_SIZE
    /\ Len(misspelled.words) = 2
    /\ Covering(ret.pos) = {2}

\* the lookup of the code finds w, in its own, lower and upper case
Lookup(dict, w) ==
    /\ BinarySearchDictionary(dict, w)
    /\ BinarySearchDictionary(dict, Lower(w))
    /\ BinarySearchDictionary(dict, Upper(w))

\* C2: after AddToUserDictionary(w) the lookup finds w, case-insensitively,
\* and every word the lookup found before the call is still found after it.
C2_LearnedWordsStay ==
    [][ ret'.op = "AddToUserDictionary" =>
          /\ Lookup(userDictionary', ret'.word)
          /\ \A w \in LearnWords :
                Lookup(userDictionary, w) => Lookup(userDictionary', w) ]_vars

\* the four words are learned, the array has grown, all are found
C2_Witness ==
    /\ ret.op = "AddToUserDictionary"
    /\ Len(userDictionary.words) = 4
    /\ userDictionary.capacity > INITIAL_USER_CAPACITY
    /\ \A w \in LearnWords : Lookup(userDictionary, w)

NoNewline(w) == \A k \in 1..Len(w) : w[k] # 10

\* C6 as stated: every word without a newline and within the length cap
\* that was in the user dictionary when it was saved is found after
\* LoadUserDictionary on a fresh engine.
C6_RoundTripAnyWord ==
    (ret.op = "LoadUserDictionary" /\ ret.fresh) =>
        \A w \in saved :
            (NoNewline(w) /\ Len(w) <= LINE_SIZE - 1)
                => BinarySearchDictionary(userDictionary, w)

\* C6 amended: the same for the words that are not empty and do not end in
\* white space.
C6_RoundTrip ==
    (ret.op = "LoadUserDictionary" /\ ret.fresh) =>
        \A w \in saved :
            (NoNewline(w) /\ Len(w) <= LINE_SIZE - 1 /\ Len(w) > 0
               /\ ~isspace(w[Len(w)]))
                => BinarySearchDictionary(userDictionary, w)

\* "aBa", as long as the length cap, and "ab" come back
C6_Witness ==
    /\ ret.op = "LoadUserDictionary"
    /\ ret.fresh
    /\ {<<97, 66, 97>>, <<97, 98>>} \subseteq saved
    /\ BinarySearchDictionary(userDictionary, <<97, 66, 97>>)
    /\ BinarySearchDictionary(userDictionary, <<97, 98>>)

\* C7: at most 5 suggestions; each is an entry of the main dictionary at
\* edit distance 1 or 2 from the word asked for, and none is that word.
C7_Suggestions ==
    (ret.op = "GetSuggestions" /\ ~ret.null) =>
        /\ ret.count = Len(ret.result)
        /\ ret.count <= 5
        /\ \A k \in 1..Len(ret.result) :
              /\ \E i \in 1..Len(mainDictionary.words) :
                    mainDictionary.words[i] = ret.result[k]
              /\ EditDistance(ret.word, ret.result[k]) \in {1, 2}
              /\ ret.result[k] # ret.word

\* five suggestions from the twelve-word dictionary, with a learnt word
\* near the query
C7_Witness ==
    /\ ret.op = "GetSuggestions"
    /\ ret.count = 5
    /\ Len(mainDictionary.words) = 12
    /\ userDictionary.words # <<>>

IndexInMain(w) == CHOOSE i \in 1..Len(mainDictionary.words) : mainDictionary.words[i] = w

\* C9 as stated: ascending edit distance, and equal distances in main
\* dictionary order.
C9_DistanceThenDictionaryOrder ==
    (ret.op = "GetSuggestions" /\ ~ret.null) =>
        \A k, l \in 1..Len(ret.result) :
            k < l =>
              LET dk == EditDistance(ret.word, ret.result[k])
                  dl == EditDistance(ret.word, ret.result[l])
              IN  \/ dk < dl
                  \/ dk = dl /\ IndexInMain(ret.result[k]) < IndexInMain(ret.result[l])

\* C9 amended: ascending edit distance.
C9_AscendingDistance ==
    (ret.op = "GetSuggestions" /\ ~ret.null) =>
        \A k, l \in 1..Len(ret.result) :
            k < l => EditDistance(ret.word, ret.result[k])
                       <= EditDistance(ret.word, ret.result[l])

\* a list whose first entry is at distance 1 and whose last is at 2, and
\* whose first entry is not the first candidate of the dictionary
C9_Witness ==
    /\ ret.op = "GetSuggestions"
    /\ ret.count >= 3
    /\ EditDistance(ret.word, ret.result[1]) = 1
    /\ EditDistance(ret.word, ret.result[ret.count]) = 2
    /\ EditDistance(ret.word, mainDictionary.words[1]) = 2

\* C3: the three word sets are sorted whenever a call has returned.
C3_AlwaysSorted ==
    ~undefined =>
        IsSorted(mainDictionary) /\ IsSorted(userDictionary) /\ IsSorted(ignoredWords)

\* C10: no recorded capacity exceeds the allocation, and no append stores
\* outside it.
C10_CapacityWithinAllocation ==
    /\ ~undefined
    /\ mainDictionary.capacity <= mainDictionary.size
    /\ userDictionary.capacity <= userDictionary.size
    /\ ignoredWords.capacity <= ignoredWords.size
    /\ misspelled.capacity <= misspelled.size

====
